---- MODULE Spec2Model ----
(***************************************************************************)
(* KPL-Premiere: the weekly tournament progression engine.                 *)
(*                                                                         *)
(* The season state of js/state.js, the match handlers of js/match.js, the *)
(* Swiss pairing and round controller of js/swiss.js and the bracket       *)
(* controller of js/bracket.js, together with the button gating of         *)
(* js/ui.js that decides which handler the operator can invoke.            *)
(*                                                                         *)
(* Teams are identified by their index 1..TEAM_COUNT in state.teams; the   *)
(* team named by index i sorts before the team named by index j (under     *)
(* localeCompare) iff i < j.  A team object is never replaced during a     *)
(* session, only its swiss and bracket blocks are, so a match closure,     *)
(* a bracket pair and an opps entry all resolve to the same index.         *)
(***************************************************************************)
EXTENDS Integers, Sequences, FiniteSets

\* ------------------------------------------------------------------------
\* js/config.js
\* ------------------------------------------------------------------------
TOTAL_WEEKS == 15
SWISS_ROUNDS == 4
TEAM_COUNT == 8
PLAYERS_PER_TEAM == 2
BRACKET_ROUND_COUNT == 3
BRACKET_BASE_POINTS == <<10, 8, 6, 4>>
FIRST_PLACE_BONUS == 5
LOSER_POINT_PENALTY == 2

\* ------------------------------------------------------------------------
\* Bounds of the model (not program constants)
\* ------------------------------------------------------------------------
\* Non-default operator inputs in one run: a normal submission won by the
\* second-listed team, an admin correction, or a submission with invalid
\* scores.  Every other input is the default result of the first match
\* of the list that has no result yet.
MaxDeviations == 1
\* Size of the team universe of the pure swissPair specification.
MaxPool == 4
\* Largest starting win or loss count of the pure applyScore specification.
MaxStart == 1

\* Upsets (the second-named team wins) explored in the one-week run without
\* corrections.
MaxUpsets == 2

\* Upsets and admin corrections explored in the run of the Swiss phase of
\* one week.
MaxSwissDeviations == 2

\* Upsets explored in the run of the Swiss phase without corrections: every
\* combination of outcomes of the eight matches of rounds 1 and 2.
MaxOutcomeUpsets == 8

\* Score inputs of the validation run: the integers from -MaxNegative to
\* MaxScoreInput, and NaN.
MaxNegative == 2
MaxScoreInput == 101

\* The Buchholz run: team names, largest win count of a team, longest
\* opponent list.
MaxNames == 3
MaxWins == 2
MaxOpps == 3

\* Largest team collection of the sorting run.
MaxSort == 3

\* The league comparator run: number of players and largest point total.
MaxLeague == 3
MaxLeagueValue == 2

Teams == 1..TEAM_COUNT
Players == 1..(TEAM_COUNT * PLAYERS_PER_TEAM)

\* team.players: the names of the two players created with team t
\* (startLeague pushes them in team order).
TeamPlayers(t) == { (t - 1) * PLAYERS_PER_TEAM + k : k \in 1..PLAYERS_PER_TEAM }

\* ------------------------------------------------------------------------
\* Sequence helpers
\* ------------------------------------------------------------------------
InSeq(x, s) == \E i \in 1..Len(s) : s[i] = x

Count(x, s) == Cardinality({ i \in 1..Len(s) : s[i] = x })

RECURSIVE Flatten(_)
Flatten(ss) == IF ss = << >> THEN << >> ELSE Head(ss) \o Flatten(Tail(ss))

RECURSIVE SumSeq(_)
SumSeq(s) == IF s = << >> THEN 0 ELSE Head(s) + SumSeq(Tail(s))

\* Array.prototype.filter over a subsequence of state.teams: the members of
\* set S in array (index) order.
RECURSIVE InOrder(_, _)
InOrder(S, n) ==
    IF n = 0 THEN << >>
    ELSE IF n \in S THEN Append(InOrder(S, n - 1), n) ELSE InOrder(S, n - 1)

Max2(x, y) == IF x >= y THEN x ELSE y
Min2(x, y) == IF x <= y THEN x ELSE y

\* ------------------------------------------------------------------------
\* js/match.js: isValidScore, applyScore
\* ------------------------------------------------------------------------
\* The validation without the range check of line 20.
isValidScoreUnbounded(scoreA, scoreB) ==
    /\ Max2(scoreA, scoreB) >= 11
    /\ Max2(scoreA, scoreB) - Min2(scoreA, scoreB) >= 2

\* Lines 20-23, on two numbers that passed the typeof and isNaN tests.
isValidScore(scoreA, scoreB) ==
    /\ ~(scoreA < 0 \/ scoreB < 0 \/ scoreA > 99 \/ scoreB > 99)
    /\ Max2(scoreA, scoreB) >= 11
    /\ Max2(scoreA, scoreB) - Min2(scoreA, scoreB) >= 2

\* The undo half of applyScore (match.js 45-52) on the pair of phase blocks;
\* lastResult is << >> for null, else <<sa, sb>>.
UndoNoDiff(teamA, teamB, lastResult) ==
    IF lastResult = << >> THEN <<teamA, teamB>>
    ELSE LET sa == lastResult[1]
             sb == lastResult[2]
         IN << [teamA EXCEPT !.w = @ - (IF sa > sb THEN 1 ELSE 0),
                             !.l = @ - (IF sb > sa THEN 1 ELSE 0)],
               [teamB EXCEPT !.w = @ - (IF sb > sa THEN 1 ELSE 0),
                             !.l = @ - (IF sa > sb THEN 1 ELSE 0)] >>

UndoResult(teamA, teamB, lastResult) ==
    IF lastResult = << >> THEN <<teamA, teamB>>
    ELSE LET sa == lastResult[1]
             sb == lastResult[2]
         IN << [teamA EXCEPT !.w = @ - (IF sa > sb THEN 1 ELSE 0),
                             !.l = @ - (IF sb > sa THEN 1 ELSE 0),
                             !.pd = @ - (sa - sb)],
               [teamB EXCEPT !.w = @ - (IF sb > sa THEN 1 ELSE 0),
                             !.l = @ - (IF sa > sb THEN 1 ELSE 0),
                             !.pd = @ - (sb - sa)] >>

\* applyScore updating the first team's differential only.
applyScoreOneDiff(teamA, teamB, scoreA, scoreB, lastResult) ==
    LET u == UndoResult(teamA, teamB, lastResult)
        a1 == [u[1] EXCEPT !.pd = @ + (scoreA - scoreB)]
    IN IF scoreA > scoreB
       THEN << [a1 EXCEPT !.w = @ + 1], [u[2] EXCEPT !.l = @ + 1] >>
       ELSE << [a1 EXCEPT !.l = @ + 1], [u[2] EXCEPT !.w = @ + 1] >>

\* applyScore on the two phase blocks: the pair of blocks after the call.
\* (Its return value, the new lastResult, is <<scoreA, scoreB>>.)
applyScore(teamA, teamB, scoreA, scoreB, lastResult) ==
    LET u == UndoResult(teamA, teamB, lastResult)
        a1 == [u[1] EXCEPT !.pd = @ + (scoreA - scoreB)]
        b1 == [u[2] EXCEPT !.pd = @ + (scoreB - scoreA)]
    IN IF scoreA > scoreB
       THEN << [a1 EXCEPT !.w = @ + 1], [b1 EXCEPT !.l = @ + 1] >>
       ELSE << [a1 EXCEPT !.l = @ + 1], [b1 EXCEPT !.w = @ + 1] >>

\* ------------------------------------------------------------------------
\* js/swiss.js: swissPair
\* ------------------------------------------------------------------------
\* The rematch test of the partner loop: a.swiss.opps.includes(b.name).
NeverPlayed(a, b, opps) == FALSE

Played(a, b, opps) == InSeq(b, opps[a])

\* pool.find(t => !used.has(t))
FirstUnused(pool, used) ==
    pool[CHOOSE i \in 1..Len(pool) :
            /\ pool[i] \notin used
            /\ \A j \in 1..(i - 1) : pool[j] \in used]

RECURSIVE backtrack(_, _, _, _)

\* The partner loop with its retry removed: the first admissible partner is
\* final.
TryFirstOnly(pool, opps, used, result, a, j) ==
    LET free == { k \in j..Len(pool) :
                    pool[k] \notin (used \cup {a}) /\ ~Played(a, pool[k], opps) }
    IN IF free = {} THEN [ok |-> FALSE, res |-> result]
       ELSE LET k == CHOOSE x \in free : \A y \in free : x <= y
                r == backtrack(pool, opps, used \cup {a, pool[k]},
                               Append(result, <<a, pool[k]>>))
            IN IF r.ok THEN r ELSE [ok |-> FALSE, res |-> result]

\* The partner loop without result.pop(): a pair pushed before a failed
\* search stays in result.
RECURSIVE TryPartnerNoPop(_, _, _, _, _, _)
TryPartnerNoPop(pool, opps, used, result, a, j) ==
    IF j > Len(pool) THEN [ok |-> FALSE, res |-> result]
    ELSE LET b == pool[j]
         IN IF b \in (used \cup {a}) \/ Played(a, b, opps)
            THEN TryPartnerNoPop(pool, opps, used, result, a, j + 1)
            ELSE LET r == backtrack(pool, opps, used \cup {a, b},
                                    Append(result, <<a, b>>))
                 IN IF r.ok THEN r
                    ELSE TryPartnerNoPop(pool, opps, used, r.res, a, j + 1)

\* for (const b of pool) { ... } of backtrack, from pool position j on, with
\* a already added to used.  On exhaustion result is as it was on entry
\* (every push was popped).
RECURSIVE TryPartner(_, _, _, _, _, _)
TryPartner(pool, opps, used, result, a, j) ==
    IF j > Len(pool) THEN [ok |-> FALSE, res |-> result]
    ELSE LET b == pool[j]
         IN IF b \in (used \cup {a}) \/ Played(a, b, opps)
            THEN TryPartner(pool, opps, used, result, a, j + 1)
            ELSE LET r == backtrack(pool, opps, used \cup {a, b},
                                    Append(result, <<a, b>>))
                 IN IF r.ok THEN r
                    ELSE TryPartner(pool, opps, used, result, a, j + 1)

backtrack(pool, opps, used, result) ==
    IF Cardinality(used) = Len(pool) THEN [ok |-> TRUE, res |-> result]
    ELSE TryPartner(pool, opps, used, result, FirstUnused(pool, used), 1)

\* swissPair(pool): pool is a sequence of distinct teams, opps[t] is
\* t.swiss.opps.  The returned list of pairs.
swissPair(pool, opps) ==
    IF Len(pool) < 2 THEN << >>
    ELSE backtrack(pool, opps, {}, << >>).res


\* ------------------------------------------------------------------------
\* js/swiss.js: buchholz, sortTeamsBySwiss; js/sorting.js: the comparator
\* ------------------------------------------------------------------------
\* Sum of swiss.w over the entries of team.swiss.opps (every entry names a
\* team of the collection here).
buchholz(tm, t) ==
    SumSeq([i \in 1..Len(tm[t].swiss.opps) |-> tm[tm[t].swiss.opps[i]].swiss.w])

\* The comparator with the Buchholz tie-break left out.
compareTeamsNoBuchholz(tm, a, b) ==
    IF tm[b].swiss.w # tm[a].swiss.w THEN tm[b].swiss.w < tm[a].swiss.w
    ELSE IF tm[b].swiss.pd # tm[a].swiss.pd THEN tm[b].swiss.pd < tm[a].swiss.pd
    ELSE a < b

\* compareTeamsBySwiss(a, b) < 0: a is ranked before b.
compareTeamsBySwiss(tm, a, b) ==
    IF tm[b].swiss.w # tm[a].swiss.w THEN tm[b].swiss.w < tm[a].swiss.w
    ELSE IF buchholz(tm, b) # buchholz(tm, a)
         THEN buchholz(tm, b) < buchholz(tm, a)
    ELSE IF tm[b].swiss.pd # tm[a].swiss.pd THEN tm[b].swiss.pd < tm[a].swiss.pd
    ELSE a < b

\* Array.prototype.sort is stable: an element is placed before the first
\* element of the sorted part that the comparator ranks after it.
RECURSIVE InsertTeam(_, _, _)
InsertTeam(tm, sorted, t) ==
    IF sorted = << >> THEN << t >>
    ELSE IF compareTeamsBySwiss(tm, t, Head(sorted)) THEN << t >> \o sorted
    ELSE << Head(sorted) >> \o InsertTeam(tm, Tail(sorted), t)

RECURSIVE SortFrom(_, _, _, _)
SortFrom(tm, list, i, sorted) ==
    IF i > Len(list) THEN sorted
    ELSE SortFrom(tm, list, i + 1, InsertTeam(tm, sorted, list[i]))

\* sortTeamsBySwiss(teams) for the array list of teams of the collection
\* tm: [] for an empty array, else the sorted copy [...teams].sort(..).
sortTeamList(tm, list) ==
    IF Len(list) = 0 THEN << >> ELSE SortFrom(tm, list, 1, << >>)

\* sortTeamsBySwiss(State.getTeams()) in the session: the teams array is
\* in index order.
sortTeamsBySwiss(tm) == sortTeamList(tm, [k \in 1..TEAM_COUNT |-> k])

\* ------------------------------------------------------------------------
\* State
\* ------------------------------------------------------------------------
VARIABLES
    week,                  \* state.week
    swissRound,            \* state.swissRound
    pending,               \* state.pending
    teams,                 \* state.teams: team -> [swiss, bracket]
    players,               \* state.players: player -> league record
    bracketRounds,         \* state.bracketRounds: << >> or three lists of pairs
    matches,               \* the match elements in the content area, with
                           \* the closure variables of each
    onAllMatchesComplete,  \* match.js singleton: 0 for null, else the round
                           \* number the registered callback closes over
    microtasks,            \* callbacks scheduled by Promise.resolve().then
    buttons,               \* enabled state of the three phase buttons
    saved,                 \* the snapshot last written by State.save()
    deviations,            \* non-default operator inputs used so far
    lastOp,                \* the handler that ran last, and how it ended
    cbRegistered,          \* completion callbacks registered so far
    cbFired,               \* completion callbacks run so far
    probe                  \* inputs and outputs of the pure-function runs

vars == << week, swissRound, pending, teams, players, bracketRounds, matches,
           onAllMatchesComplete, microtasks, buttons, saved, deviations,
           lastOp, cbRegistered, cbFired, probe >>

\* The season state proper (what State.save() serialises).
season == << week, swissRound, pending, teams, players, bracketRounds >>

ZeroSwiss == [w |-> 0, l |-> 0, pd |-> 0, opps |-> << >>, playR4 |-> FALSE]
ZeroBracket == [w |-> 0, l |-> 0, pd |-> 0]
ZeroLeague == [pts |-> 0, w |-> 0, l |-> 0, pd |-> 0]

\* JSON.stringify of the six state fields.
Snapshot(wk, sr, pe, tm, pl, br) ==
    [week |-> wk, swissRound |-> sr, pending |-> pe, teams |-> tm,
     players |-> pl, bracketRounds |-> br]

NoProbe == [kind |-> "none"]

\* The week the run starts in: the last week that nextWeek still leaves.
StartWeek == TOTAL_WEEKS - 1

\* The session starts from importFullBackup of a backup taken at the start
\* of week StartWeek of a season without results so far: restoreState
\* copies week, swissRound 0, pending 0, eight teams with zero blocks and
\* sixteen players; the content area is cleared; updateButtonStates
\* (swissRound 0) enables the next-round button and disables the other
\* two; State.save() writes the snapshot.  Apart from the week number this
\* is the state startLeague builds before it calls nextSwissRound.
MachineInit ==
    /\ week = StartWeek
    /\ swissRound = 0
    /\ pending = 0
    /\ teams = [t \in Teams |-> [swiss |-> ZeroSwiss, bracket |-> ZeroBracket]]
    /\ players = [p \in Players |-> ZeroLeague]
    /\ bracketRounds = << >>
    /\ matches = << >>
    /\ onAllMatchesComplete = 0
    /\ microtasks = << >>
    /\ buttons = [nextSwiss |-> TRUE, startBracket |-> FALSE, nextWeek |-> FALSE]
    /\ saved = Snapshot(StartWeek, 0, 0,
                        [t \in Teams |-> [swiss |-> ZeroSwiss, bracket |-> ZeroBracket]],
                        [p \in Players |-> ZeroLeague], << >>)
    /\ deviations = 0
    /\ lastOp = "importFullBackup"
    /\ cbRegistered = 0
    /\ cbFired = 0

Init == MachineInit /\ probe = NoProbe

\* ------------------------------------------------------------------------
\* js/match.js: makeMatch, makeBo3Match and their handlers
\* ------------------------------------------------------------------------
\* The closure of one match element.  rnd is the round of the heading the
\* element was appended under; disabled is the submit button's attribute.
makeMatch(a, b, isSwiss, rnd) ==
    [a |-> a, b |-> b, isSwiss |-> isSwiss, bo3 |-> FALSE, rnd |-> rnd,
     done |-> FALSE, lastResult |-> << >>, oppsRecorded |-> FALSE,
     disabled |-> FALSE]

makeBo3Match(a, b, isSwiss, rnd) ==
    [a |-> a, b |-> b, isSwiss |-> isSwiss, bo3 |-> TRUE, rnd |-> rnd,
     done |-> FALSE, lastResult |-> << >>, oppsRecorded |-> FALSE,
     disabled |-> FALSE]

\* Operator inputs.
DefaultScore == <<11, 3>>
UpsetScore == <<9, 11>>
InvalidScore == <<11, 10>>
ScoreInputs == {DefaultScore, UpsetScore, InvalidScore}
\* <<g1a, g1b, g2a, g2b, g3a, g3b>>
DefaultBo3 == <<11, 3, 11, 5, 0, 0>>
UpsetBo3 == <<11, 3, 3, 11, 9, 11>>
InvalidBo3 == <<11, 3, 3, 11, 5, 5>>
Bo3Inputs == {DefaultBo3, UpsetBo3, InvalidBo3}

\* applyScore on the team collection: the chosen phase block of a and of b.
ApplyToTeams(tm, a, b, isSwiss, scoreA, scoreB, lastResult) ==
    LET r == applyScore(IF isSwiss THEN tm[a].swiss ELSE tm[a].bracket,
                        IF isSwiss THEN tm[b].swiss ELSE tm[b].bracket,
                        scoreA, scoreB, lastResult)
    IN IF isSwiss
       THEN [tm EXCEPT ![a].swiss = r[1], ![b].swiss = r[2]]
       ELSE [tm EXCEPT ![a].bracket = r[1], ![b].bracket = r[2]]

\* a.swiss.opps.push(b.name); b.swiss.opps.push(a.name)
PushOpps(tm, a, b) ==
    [tm EXCEPT ![a].swiss.opps = Append(@, b), ![b].swiss.opps = Append(@, a)]

\* checkPendingComplete with the round test off by one (<= for <).
checkPendingOffByOne(isSwiss, pe, bt) ==
    IF pe = 0 /\ isSwiss
    THEN IF swissRound <= SWISS_ROUNDS THEN [bt EXCEPT !.nextSwiss = TRUE]
         ELSE bt
    ELSE bt

\* checkPendingComplete(isSwiss) with pending = pe: the buttons afterwards.
checkPendingComplete(isSwiss, pe, bt) ==
    IF pe = 0 /\ isSwiss
    THEN IF swissRound < SWISS_ROUNDS THEN [bt EXCEPT !.nextSwiss = TRUE]
         ELSE IF swissRound = SWISS_ROUNDS THEN [bt EXCEPT !.startBracket = TRUE]
         ELSE bt
    ELSE bt

\* The condition under which notifyCompletion schedules the callback.
CompletionDue(isSwiss, pe) ==
    ~isSwiss /\ pe = 0 /\ onAllMatchesComplete # 0

\* notifyCompletion without the line that clears the singleton.
NotifyKeepRegistered(isSwiss, pe) ==
    /\ buttons' = checkPendingComplete(isSwiss, pe, buttons)
    /\ UNCHANGED onAllMatchesComplete
    /\ IF CompletionDue(isSwiss, pe)
       THEN microtasks' = Append(microtasks, onAllMatchesComplete)
       ELSE UNCHANGED microtasks

\* notifyCompletion(isSwiss) with pending = pe.
notifyCompletion(isSwiss, pe) ==
    /\ buttons' = checkPendingComplete(isSwiss, pe, buttons)
    /\ IF CompletionDue(isSwiss, pe)
       THEN /\ onAllMatchesComplete' = 0
            /\ microtasks' = Append(microtasks, onAllMatchesComplete)
       ELSE UNCHANGED << onAllMatchesComplete, microtasks >>

\* A handler that counts the match as entered before it validates.
RejectedAfterDecrement(op) ==
    /\ lastOp' = op
    /\ pending' = pending - 1
    /\ UNCHANGED << week, swissRound, teams, players, bracketRounds, matches,
                    onAllMatchesComplete, microtasks, buttons, saved,
                    cbRegistered, cbFired, probe >>

\* A handler that returns before touching the state (invalid scores).
Rejected(op) ==
    /\ lastOp' = op
    /\ UNCHANGED << season, matches, onAllMatchesComplete, microtasks, buttons,
                    saved, cbRegistered, cbFired, probe >>

IsDeviation(s) == s # DefaultScore /\ s # DefaultBo3

\* The non-default inputs a run may use: the session machine counts upsets,
\* invalid entries and admin corrections; the one-week run counts upsets.
Budget ==
    IF probe.kind = "week" THEN MaxUpsets
    ELSE IF probe.kind = "swiss" THEN MaxSwissDeviations
    ELSE IF probe.kind = "outcomes" THEN MaxOutcomeUpsets
    ELSE MaxDeviations

\* Match element i is the first of the list without a result.
InTurn(i) == \A j \in 1..(i - 1) : matches[j].done

\* pending decremented on every successful entry.
PendingAlwaysDecremented(m) == pending - 1

\* if (!done) { State.decrementPending(); done = true; }: pending after a
\* successful entry for match element m.
PendingAfter(m) == IF m.done THEN pending ELSE pending - 1

\* The .match-submit onclick handler of makeMatch for match element i.
SubmitMatch(i, s) ==
    LET m == matches[i]
        pe == PendingAfter(m)
        t1 == ApplyToTeams(teams, m.a, m.b, m.isSwiss, s[1], s[2], m.lastResult)
        t2 == IF m.isSwiss /\ ~m.oppsRecorded THEN PushOpps(t1, m.a, m.b) ELSE t1
    IN /\ microtasks = << >>
       /\ ~m.bo3
       /\ ~m.disabled
       /\ IsDeviation(s) \/ InTurn(i)
       /\ deviations + (IF IsDeviation(s) THEN 1 ELSE 0) <= Budget
       /\ deviations' = deviations + (IF IsDeviation(s) THEN 1 ELSE 0)
       /\ IF ~isValidScore(s[1], s[2]) THEN Rejected("submitInvalid")
          ELSE /\ pending' = pe
               /\ teams' = t2
               /\ matches' = [matches EXCEPT ![i] =
                     [@ EXCEPT !.done = TRUE, !.lastResult = s,
                               !.oppsRecorded = (@ \/ m.isSwiss),
                               !.disabled = TRUE]]
               /\ saved' = Snapshot(week, swissRound, pe, t2, players, bracketRounds)
               /\ notifyCompletion(m.isSwiss, pe)
               /\ lastOp' = "submit"
               /\ UNCHANGED << week, swissRound, players, bracketRounds, cbRegistered, cbFired, probe >>

\* The .admin onclick handler of makeMatch for match element i.
AdminMatch(i, s) ==
    LET m == matches[i]
        pe == PendingAfter(m)
        t1 == ApplyToTeams(teams, m.a, m.b, m.isSwiss, s[1], s[2], m.lastResult)
    IN /\ microtasks = << >>
       /\ ~m.bo3
       /\ deviations < Budget
       /\ deviations' = deviations + 1
       /\ IF ~isValidScore(s[1], s[2]) THEN Rejected("adminInvalid")
          ELSE /\ pending' = pe
               /\ teams' = t1
               /\ matches' = [matches EXCEPT ![i] =
                     [@ EXCEPT !.done = TRUE, !.lastResult = s, !.disabled = TRUE]]
               /\ saved' = Snapshot(week, swissRound, pe, t1, players, bracketRounds)
               /\ notifyCompletion(m.isSwiss, pe)
               /\ lastOp' = "admin"
               /\ UNCHANGED << week, swissRound, players, bracketRounds, cbRegistered, cbFired, probe >>

\* Games won by A and by B, as the Bo3 handler counts them (game 3 only
\* when games 1 and 2 are split).
Bo3Wins(g) ==
    LET a2 == (IF g[1] > g[2] THEN 1 ELSE 0) + (IF g[3] > g[4] THEN 1 ELSE 0)
        split == a2 = 1
    IN [a |-> a2 + (IF split /\ g[5] > g[6] THEN 1 ELSE 0),
        b |-> (2 - a2) + (IF split /\ ~(g[5] > g[6]) THEN 1 ELSE 0),
        split |-> split]

Bo3Valid(g) ==
    /\ isValidScore(g[1], g[2])
    /\ isValidScore(g[3], g[4])
    /\ Bo3Wins(g).split => isValidScore(g[5], g[6])
    /\ ~(Bo3Wins(g).a < 2 /\ Bo3Wins(g).b < 2)

\* The test of match.js 272 that guards the game-3 differential: it reads
\* aWins and bWins after game 3 has been counted into them (line 258).
Game3InDiff(wn) == wn.a = 1 /\ wn.b = 1

\* The phase blocks of a and b after a decided best-of-3.
ApplyBo3(tm, a, b, isSwiss, g) ==
    LET wn == Bo3Wins(g)
        pdA == (g[1] - g[2]) + (g[3] - g[4]) + (IF Game3InDiff(wn) THEN g[5] - g[6] ELSE 0)
        pdB == (g[2] - g[1]) + (g[4] - g[3]) + (IF Game3InDiff(wn) THEN g[6] - g[5] ELSE 0)
        blkA == IF isSwiss THEN tm[a].swiss ELSE tm[a].bracket
        blkB == IF isSwiss THEN tm[b].swiss ELSE tm[b].bracket
        A1 == IF wn.a > wn.b THEN [blkA EXCEPT !.pd = @ + pdA, !.w = @ + 1]
                             ELSE [blkA EXCEPT !.pd = @ + pdA, !.l = @ + 1]
        B1 == IF wn.a > wn.b THEN [blkB EXCEPT !.pd = @ + pdB, !.l = @ + 1]
                             ELSE [blkB EXCEPT !.pd = @ + pdB, !.w = @ + 1]
    IN IF isSwiss THEN [tm EXCEPT ![a].swiss = A1, ![b].swiss = B1]
                  ELSE [tm EXCEPT ![a].bracket = A1, ![b].bracket = B1]

\* The button onclick handler of makeBo3Match for match element i.
SubmitBo3(i, g) ==
    LET m == matches[i]
        pe == PendingAfter(m)
        t1 == ApplyBo3(teams, m.a, m.b, m.isSwiss, g)
        t2 == IF m.isSwiss /\ ~m.oppsRecorded THEN PushOpps(t1, m.a, m.b) ELSE t1
    IN /\ microtasks = << >>
       /\ m.bo3
       /\ ~m.disabled
       /\ IsDeviation(g) \/ InTurn(i)
       /\ deviations + (IF IsDeviation(g) THEN 1 ELSE 0) <= Budget
       /\ deviations' = deviations + (IF IsDeviation(g) THEN 1 ELSE 0)
       /\ IF ~Bo3Valid(g) THEN Rejected("bo3Invalid")
          ELSE /\ pending' = pe
               /\ teams' = t2
               /\ matches' = [matches EXCEPT ![i] =
                     [@ EXCEPT !.done = TRUE,
                               !.oppsRecorded = (@ \/ m.isSwiss),
                               !.disabled = TRUE]]
               /\ saved' = Snapshot(week, swissRound, pe, t2, players, bracketRounds)
               /\ notifyCompletion(m.isSwiss, pe)
               /\ lastOp' = "submitBo3"
               /\ UNCHANGED << week, swissRound, players, bracketRounds, cbRegistered, cbFired, probe >>


\* ------------------------------------------------------------------------
\* js/swiss.js: nextSwissRound
\* ------------------------------------------------------------------------
OppsOf(tm) == [t \in Teams |-> tm[t].swiss.opps]

\* pools[`${w}-${l}`]: the teams with that record, in array order.
PoolOf(tm, w, l) ==
    InOrder({t \in Teams : tm[t].swiss.w = w /\ tm[t].swiss.l = l}, TEAM_COUNT)

\* Object.values(pools): the pools in the order their keys were first
\* inserted by teams.forEach, i.e. by their first member.
RECURSIVE PoolKeys(_, _)
PoolKeys(tm, n) ==
    IF n = 0 THEN << >>
    ELSE LET ks == PoolKeys(tm, n - 1)
             k == <<tm[n].swiss.w, tm[n].swiss.l>>
         IN IF InSeq(k, ks) THEN ks ELSE Append(ks, k)

SingleMatches(pairs, isSwiss, rnd) ==
    [i \in 1..Len(pairs) |-> makeMatch(pairs[i][1], pairs[i][2], isSwiss, rnd)]

Bo3Matches(pairs, isSwiss, rnd) ==
    [i \in 1..Len(pairs) |-> makeBo3Match(pairs[i][1], pairs[i][2], isSwiss, rnd)]

\* Round 3 (swiss.js 84-104): the teams after marking, and the new matches.
MarkR4(tm) ==
    [t \in Teams |->
        IF tm[t].swiss.w = 1 /\ tm[t].swiss.l = 1
        THEN [tm[t] EXCEPT !.swiss.playR4 = TRUE] ELSE tm[t]]

\* Round 3 with every pool played as single games.
Round3AllSingle(tm) ==
    SingleMatches(swissPair(PoolOf(tm, 2, 0), OppsOf(tm)), TRUE, 3)
    \o SingleMatches(swissPair(PoolOf(tm, 1, 1), OppsOf(tm)), TRUE, 3)
    \o SingleMatches(swissPair(PoolOf(tm, 0, 2), OppsOf(tm)), TRUE, 3)

\* Round 3 without the matches of the 1-1 pool.
Round3NoMiddle(tm) ==
    Bo3Matches(swissPair(PoolOf(tm, 2, 0), OppsOf(tm)), TRUE, 3)
    \o Bo3Matches(swissPair(PoolOf(tm, 0, 2), OppsOf(tm)), TRUE, 3)

Round3Matches(tm) ==
    Bo3Matches(swissPair(PoolOf(tm, 2, 0), OppsOf(tm)), TRUE, 3)
    \o SingleMatches(swissPair(PoolOf(tm, 1, 1), OppsOf(tm)), TRUE, 3)
    \o Bo3Matches(swissPair(PoolOf(tm, 0, 2), OppsOf(tm)), TRUE, 3)

\* Round 4 (swiss.js 105-127).
R4Teams(tm) == InOrder({t \in Teams : tm[t].swiss.playR4}, TEAM_COUNT)

R4Group(tm, w, l) ==
    InOrder({t \in Teams : /\ tm[t].swiss.playR4
                           /\ tm[t].swiss.w = w /\ tm[t].swiss.l = l}, TEAM_COUNT)

Round4Matches(tm) ==
    IF Len(R4Teams(tm)) = 4
    THEN (IF Len(R4Group(tm, 2, 1)) = 2
          THEN SingleMatches(swissPair(R4Group(tm, 2, 1), OppsOf(tm)), TRUE, 4)
          ELSE << >>)
         \o
         (IF Len(R4Group(tm, 1, 2)) = 2
          THEN SingleMatches(swissPair(R4Group(tm, 1, 2), OppsOf(tm)), TRUE, 4)
          ELSE << >>)
    ELSE << >>

ClearR4(tm) ==
    IF Len(R4Teams(tm)) = 4
    THEN [t \in Teams |-> [tm[t] EXCEPT !.swiss.playR4 = FALSE]]
    ELSE tm

\* The pool rounds with the last pair of each pool left out.
PoolRoundShort(tm, rnd) ==
    LET ks == PoolKeys(tm, TEAM_COUNT)
        short(ps) == SubSeq(ps, 1, Len(ps) - 1)
    IN Flatten([i \in 1..Len(ks) |->
          SingleMatches(short(swissPair(PoolOf(tm, ks[i][1], ks[i][2]), OppsOf(tm))),
                        TRUE, rnd)])

\* Every other round (swiss.js 128-136): each pool paired, single games.
PoolRoundMatches(tm, rnd) ==
    LET ks == PoolKeys(tm, TEAM_COUNT)
    IN Flatten([i \in 1..Len(ks) |->
          SingleMatches(swissPair(PoolOf(tm, ks[i][1], ks[i][2]), OppsOf(tm)),
                        TRUE, rnd)])

\* The guard of nextSwissRound (swiss.js 60).
NoAdvanceGuard == FALSE

AdvanceBlocked == pending > 0

\* nextSwissRound, the click handler of the next-round button.
NextSwissRound ==
    /\ microtasks = << >>
    /\ buttons.nextSwiss
    /\ IF AdvanceBlocked
       THEN /\ lastOp' = "nextSwissBlocked"
            /\ UNCHANGED << season, matches, onAllMatchesComplete, microtasks,
                            buttons, saved, deviations, cbRegistered, cbFired, probe >>
       ELSE LET r == swissRound + 1
                tm1 == IF r = 3 THEN MarkR4(teams)
                       ELSE IF r = 4 THEN ClearR4(teams) ELSE teams
                new == IF r = 3 THEN Round3Matches(teams)
                       ELSE IF r = 4 THEN Round4Matches(teams)
                       ELSE PoolRoundMatches(teams, r)
            IN /\ swissRound' = r
               /\ pending' = Len(new)
               /\ teams' = tm1
               /\ matches' = matches \o new
               /\ buttons' = [buttons EXCEPT !.nextSwiss = FALSE]
               /\ lastOp' = "nextSwissRound"
               /\ UNCHANGED << week, players, bracketRounds, onAllMatchesComplete,
                               microtasks, saved, deviations, cbRegistered, cbFired, probe >>

\* ------------------------------------------------------------------------
\* js/bracket.js
\* ------------------------------------------------------------------------
\* The round runner registering its callback and creating no match.
runBracketRoundRegisterOnly(roundNum, br) ==
    /\ pending' = 0
    /\ onAllMatchesComplete' = roundNum
    /\ cbRegistered' = cbRegistered + 1
    /\ UNCHANGED matches

\* runBracketRound(roundNum) on bracket rounds br: pending, the registered
\* callback and the new match elements.  (Every pair of a round built by
\* startBracket or generateNextBracketRound has two teams.)
runBracketRound(roundNum, br) ==
    IF br = << >> \/ br[roundNum] = << >>
    THEN /\ UNCHANGED << pending, onAllMatchesComplete, matches, cbRegistered >>
    ELSE /\ pending' = Len(br[roundNum])
         /\ onAllMatchesComplete' = roundNum
         /\ cbRegistered' = cbRegistered + 1
         /\ matches' = matches \o SingleMatches(br[roundNum], FALSE, roundNum)

\* Round 1 with the seeds paired in list order (1v2, 3v4, 5v6, 7v8).
SeedPairsAdjacent(seed) ==
    << <<seed[1], seed[2]>>, <<seed[3], seed[4]>>,
       <<seed[5], seed[6]>>, <<seed[7], seed[8]>> >>

\* The first entry of the bracket rounds startBracket sets (bracket.js 28).
SeedPairs(seed) ==
    << <<seed[1], seed[8]>>, <<seed[4], seed[5]>>,
       <<seed[2], seed[7]>>, <<seed[3], seed[6]>> >>

\* The start-bracket button taking clicks whatever its disabled attribute.
AlwaysClickable == TRUE

\* A click reaches startBracket only while the start-bracket button is not
\* disabled (ui.js 133-134: enableStartBracket, disableStartBracket).
BracketClickable == buttons.startBracket

\* startBracket, the click handler of the start-bracket button.
StartBracket ==
    LET seed == sortTeamsBySwiss(teams)
        br == << SeedPairs(seed), << >>, << >> >>
    IN /\ microtasks = << >>
       /\ BracketClickable
       /\ buttons' = [buttons EXCEPT !.startBracket = FALSE]
       /\ bracketRounds' = br
       /\ runBracketRound(1, br)
       /\ lastOp' = "startBracket"
       /\ UNCHANGED << week, swissRound, teams, players, microtasks, saved,
                       deviations, cbFired, probe >>

\* The loser of a bracket pair taken to be its second team.
PairLoserSecond(tm, pr) == pr[2]

\* The winner and the loser of a bracket pair, as generateNextBracketRound
\* decides them (bracket.js 77-85).
PairWinner(tm, pr) == IF tm[pr[1]].bracket.w > tm[pr[2]].bracket.w THEN pr[1] ELSE pr[2]
PairLoser(tm, pr) == IF tm[pr[1]].bracket.w > tm[pr[2]].bracket.w THEN pr[2] ELSE pr[1]

\* bracketRounds after generateNextBracketRound(roundNum).
NextBracket(tm, br, roundNum) ==
    LET w == [i \in 1..Len(br[roundNum]) |-> PairWinner(tm, br[roundNum][i])]
        l == [i \in 1..Len(br[roundNum]) |-> PairLoser(tm, br[roundNum][i])]
    IN IF roundNum = 1
       THEN [br EXCEPT ![2] = << <<w[1], w[2]>>, <<w[3], w[4]>>,
                                 <<l[1], l[2]>>, <<l[3], l[4]>> >>]
       ELSE [br EXCEPT ![3] = << <<w[1], w[2]>>, <<l[1], l[2]>>,
                                 <<w[3], w[4]>>, <<l[3], l[4]>> >>]

\* The callback of round roundNum < BRACKET_ROUND_COUNT.
GenerateNextBracketRound(roundNum) ==
    /\ bracketRounds' = NextBracket(teams, bracketRounds, roundNum)
    /\ runBracketRound(roundNum + 1, NextBracket(teams, bracketRounds, roundNum))
    /\ UNCHANGED << week, swissRound, teams, players, buttons, saved >>

\* finalizeWeek: the award loop over bracketRounds[2], pair by pair.
AwardTeam(pl, tm, t, pts) ==
    [p \in Players |->
        IF p \in TeamPlayers(t)
        THEN [pts |-> pl[p].pts + pts,
              w |-> pl[p].w + tm[t].bracket.w,
              l |-> pl[p].l + tm[t].bracket.l,
              pd |-> pl[p].pd + tm[t].bracket.pd]
        ELSE pl[p]]

\* The placement winner with a tie going to the first team of the pair.
hiTeamFirstOnTie(tm, a, b) == IF tm[a].bracket.w >= tm[b].bracket.w THEN a ELSE b

\* const hiTeam = a.bracket.w > b.bracket.w ? a : b (bracket.js 113).
hiTeam(tm, a, b) == IF tm[a].bracket.w > tm[b].bracket.w THEN a ELSE b

RECURSIVE Award(_, _, _, _)
Award(pl, tm, pairs, i) ==
    IF i > Len(pairs) THEN pl
    ELSE LET a == pairs[i][1]
             b == pairs[i][2]
             hi == hiTeam(tm, a, b)
             lo == IF hi = a THEN b ELSE a
             hiPts == BRACKET_BASE_POINTS[i] + (IF i = 1 THEN FIRST_PLACE_BONUS ELSE 0)
             loPts == BRACKET_BASE_POINTS[i] - LOSER_POINT_PENALTY
         IN Award(AwardTeam(AwardTeam(pl, tm, hi, hiPts), tm, lo, loPts),
                  tm, pairs, i + 1)

\* The reset with the swiss blocks left as they are.
ResetBracketOnly(tm) ==
    [t \in Teams |-> [swiss |-> tm[t].swiss, bracket |-> ZeroBracket]]

\* The reset of every team's phase blocks (bracket.js 144-147).
ResetTeams(tm) ==
    [t \in Teams |-> [swiss |-> ZeroSwiss, bracket |-> ZeroBracket]]

FinalizeWeek ==
    IF bracketRounds = << >> \/ bracketRounds[3] = << >>
    THEN UNCHANGED << season, matches, onAllMatchesComplete, buttons, saved,
                      cbRegistered >>
    ELSE LET pl == Award(players, teams, bracketRounds[3], 1)
             tm == ResetTeams(teams)
         IN /\ players' = pl
            /\ teams' = tm
            /\ saved' = Snapshot(week, swissRound, pending, tm, pl, bracketRounds)
            /\ buttons' = [buttons EXCEPT !.nextWeek = TRUE]
            /\ UNCHANGED << week, swissRound, pending, bracketRounds, matches,
                            onAllMatchesComplete, cbRegistered >>

\* The scheduled completion callback runs (bracket.js 50-56).
RunCallback ==
    /\ microtasks # << >>
    /\ microtasks' = Tail(microtasks)
    /\ lastOp' = "callback"
    /\ cbFired' = cbFired + 1
    /\ IF Head(microtasks) < BRACKET_ROUND_COUNT
       THEN GenerateNextBracketRound(Head(microtasks))
       ELSE FinalizeWeek
    /\ UNCHANGED << deviations, probe >>


\* The completion test passed only after the last week.
isLeagueCompleteLate(wk) == wk > TOTAL_WEEKS

\* State.isLeagueComplete() with state.week = wk.
isLeagueComplete(wk) == wk >= TOTAL_WEEKS

\* nextWeek, the click handler of the next-week button.
NextWeek ==
    /\ microtasks = << >>
    /\ buttons.nextWeek
    /\ IF isLeagueComplete(week)
       THEN /\ lastOp' = "nextWeekDone"
            /\ UNCHANGED << season, matches, onAllMatchesComplete, microtasks,
                            buttons, saved, deviations, cbRegistered, cbFired, probe >>
       ELSE /\ week' = week + 1
            /\ swissRound' = 0
            /\ matches' = << >>
            /\ buttons' = [nextSwiss |-> TRUE, startBracket |-> FALSE,
                           nextWeek |-> FALSE]
            /\ saved' = Snapshot(week + 1, 0, pending, teams, players, bracketRounds)
            /\ lastOp' = "nextWeek"
            /\ UNCHANGED << pending, teams, players, bracketRounds,
                            onAllMatchesComplete, microtasks, deviations,
                            cbRegistered, cbFired, probe >>

\* ------------------------------------------------------------------------
\* The season machine
\* ------------------------------------------------------------------------
Submit == \E i \in 1..Len(matches) : \E s \in ScoreInputs : SubmitMatch(i, s)
Admin == \E i \in 1..Len(matches) : \E s \in ScoreInputs : AdminMatch(i, s)
Bo3 == \E i \in 1..Len(matches) : \E g \in Bo3Inputs : SubmitBo3(i, g)

Next ==
    \/ NextSwissRound
    \/ Submit
    \/ Admin
    \/ Bo3
    \/ StartBracket
    \/ RunCallback
    \/ NextWeek

Spec == Init /\ [][Next]_vars

\* ------------------------------------------------------------------------
\* One week played as intended: every match gets one valid result through
\* its submit button (either side may win), the operator advances the Swiss
\* rounds and starts the bracket when the buttons allow it; no correction,
\* no invalid entry.
\* ------------------------------------------------------------------------
InitWeek == MachineInit /\ probe = [kind |-> "week"]

PlayMatch ==
    \E i \in 1..Len(matches) : \E s \in {DefaultScore, UpsetScore} : SubmitMatch(i, s)

PlayBo3 ==
    \E i \in 1..Len(matches) : \E g \in {DefaultBo3, UpsetBo3} : SubmitBo3(i, g)

NextPlay ==
    \/ NextSwissRound
    \/ PlayMatch
    \/ PlayBo3
    \/ StartBracket
    \/ RunCallback

SpecWeek == InitWeek /\ [][NextPlay]_vars

\* The Swiss phase of one week with valid results and admin corrections.
InitSwiss == MachineInit /\ probe = [kind |-> "swiss"]

CorrectMatch ==
    \E i \in 1..Len(matches) : \E s \in {DefaultScore, UpsetScore} : AdminMatch(i, s)

NextSwiss ==
    \/ NextSwissRound
    \/ PlayMatch
    \/ PlayBo3
    \/ CorrectMatch

SpecSwiss == InitSwiss /\ [][NextSwiss]_vars

\* The Swiss phase of one week with valid results only, in every outcome.
InitOutcomes == MachineInit /\ probe = [kind |-> "outcomes"]

NextOutcomes ==
    \/ NextSwissRound
    \/ PlayMatch
    \/ PlayBo3

SpecOutcomes == InitOutcomes /\ [][NextOutcomes]_vars


\* ------------------------------------------------------------------------
\* swissPair on its own: every pool drawn in array order from MaxPool
\* teams, under every symmetric opponent history of those teams.
\* ------------------------------------------------------------------------
PoolUniverse == 1..MaxPool

Edges == { e \in SUBSET PoolUniverse : Cardinality(e) = 2 }

\* opps lists of a history h (a set of played pairs): both teams of a played
\* pair list each other, as the two pushes of a submission leave them.
HistoryOpps(h) ==
    [t \in PoolUniverse |-> InOrder({u \in PoolUniverse : {t, u} \in h}, MaxPool)]

InitPair ==
    /\ MachineInit
    /\ probe \in { [kind |-> "pair", pool |-> InOrder(S, MaxPool),
                    opps |-> HistoryOpps(h), out |-> << >>, ran |-> FALSE] :
                   S \in SUBSET PoolUniverse, h \in SUBSET Edges }

PairStep ==
    /\ probe.kind = "pair"
    /\ ~probe.ran
    /\ probe' = [probe EXCEPT !.out = swissPair(probe.pool, probe.opps),
                              !.ran = TRUE]
    /\ UNCHANGED << season, matches, onAllMatchesComplete, microtasks, buttons,
                    saved, deviations, lastOp, cbRegistered, cbFired >>

SpecPair == InitPair /\ [][PairStep]_vars

\* ------------------------------------------------------------------------
\* applyScore on its own: two teams with arbitrary starting blocks, a first
\* result, then a second one applied with the first as previous result.
\* ------------------------------------------------------------------------
ValidResults ==
    { <<11, 3>>, <<9, 11>>, <<13, 11>>, <<0, 11>>, <<11, 9>>, <<15, 17>> }

StartBlocks ==
    { [w |-> w, l |-> l, pd |-> pd] :
        w \in 0..MaxStart, l \in 0..MaxStart, pd \in {0 - MaxStart, 0} }

StartTeams ==
    { [t \in 1..2 |->
         [swiss |-> [w |-> x[t].w, l |-> x[t].l, pd |-> x[t].pd,
                     opps |-> << >>, playR4 |-> FALSE],
          bracket |-> [w |-> x[t].l, l |-> x[t].w, pd |-> 0 - x[t].pd]]] :
      x \in [1..2 -> StartBlocks] }

InitApply ==
    /\ MachineInit
    /\ probe \in { [kind |-> "apply", isSwiss |-> ph, start |-> tm, tm |-> tm,
                    r1 |-> r1, r2 |-> r2, lastResult |-> << >>, step |-> 0] :
                   ph \in BOOLEAN, tm \in StartTeams,
                   r1 \in ValidResults, r2 \in ValidResults }

\* lastResult = applyScore(a, b, scoreA, scoreB, isSwiss, lastResult)
ApplyStep ==
    /\ probe.kind = "apply"
    /\ probe.step < 2
    /\ LET r == IF probe.step = 0 THEN probe.r1 ELSE probe.r2
       IN probe' = [probe EXCEPT
                      !.tm = ApplyToTeams(probe.tm, 1, 2, probe.isSwiss,
                                          r[1], r[2], probe.lastResult),
                      !.lastResult = r,
                      !.step = @ + 1]
    /\ UNCHANGED << season, matches, onAllMatchesComplete, microtasks, buttons,
                    saved, deviations, lastOp, cbRegistered, cbFired >>

SpecApply == InitApply /\ [][ApplyStep]_vars

\* ------------------------------------------------------------------------
\* isValidScore on its own. Every call site passes the result of parseInt
\* (match.js 128-129, 165-166, 240-245), which is an integer or NaN; a
\* parsed value is [nan |-> TRUE] or [nan |-> FALSE, v |-> integer].
\* ------------------------------------------------------------------------
NaN == [nan |-> TRUE, v |-> 0]

ParsedValues ==
    {NaN} \cup { [nan |-> FALSE, v |-> n] : n \in (0 - MaxNegative)..MaxScoreInput }

\* isValidScore(parseInt(..), parseInt(..)): typeof is 'number' for every
\* parsed value, line 19 rejects NaN, lines 20-23 decide the rest.
isValidParsed(x, y) ==
    /\ ~(x.nan \/ y.nan)
    /\ isValidScore(x.v, y.v)

InitValid ==
    /\ MachineInit
    /\ probe \in { [kind |-> "valid", a |-> x, b |-> y, out |-> FALSE,
                    ran |-> FALSE] : x \in ParsedValues, y \in ParsedValues }

ValidStep ==
    /\ probe.kind = "valid"
    /\ ~probe.ran
    /\ probe' = [probe EXCEPT !.out = isValidParsed(probe.a, probe.b),
                              !.ran = TRUE]
    /\ UNCHANGED << season, matches, onAllMatchesComplete, microtasks, buttons,
                    saved, deviations, lastOp, cbRegistered, cbFired >>

SpecValid == InitValid /\ [][ValidStep]_vars

\* ------------------------------------------------------------------------
\* buchholz on its own.  A collection is a function from the names of its
\* teams (distinct names) to their swiss.w; the argument is null, a team
\* without a swiss block, a team whose swiss.opps is not an array, or a
\* team with a list of opponent names, which may name teams that are not
\* in the collection (restoreState installs the teams of a backup as given).
\* ------------------------------------------------------------------------
Names == 1..MaxNames

Collections == UNION { [S -> 0..MaxWins] : S \in SUBSET Names }

RECURSIVE SeqsUpTo(_, _)
SeqsUpTo(S, n) ==
    IF n = 0 THEN { << >> }
    ELSE SeqsUpTo(S, n - 1) \cup [1..n -> S]

TeamArgs ==
    { [shape |-> sh, opps |-> << >>] : sh \in {"null", "noSwiss", "oppsNotArray"} }
        \cup { [shape |-> "team", opps |-> o] : o \in SeqsUpTo(Names, MaxOpps) }

\* The resolved opponents with a repeated name counted once.
DistinctOpps(coll, opps) ==
    InOrder({ n \in DOMAIN coll : InSeq(n, opps) }, MaxNames)

\* .map(name => teams.find(x => x.name === name)).filter(opp => opp != null)
FoundOpps(coll, opps) == SelectSeq(opps, LAMBDA n : n \in DOMAIN coll)

\* buchholz(team) with State.getTeams() = coll.
buchholzOf(coll, team) ==
    IF team.shape # "team" THEN 0
    ELSE LET found == FoundOpps(coll, team.opps)
         IN SumSeq([i \in 1..Len(found) |-> coll[found[i]]])

InitBuchholz ==
    /\ MachineInit
    /\ probe \in { [kind |-> "buchholz", coll |-> c, team |-> t, out |-> 0,
                    ran |-> FALSE] : c \in Collections, t \in TeamArgs }

BuchholzStep ==
    /\ probe.kind = "buchholz"
    /\ ~probe.ran
    /\ probe' = [probe EXCEPT !.out = buchholzOf(probe.coll, probe.team),
                              !.ran = TRUE]
    /\ UNCHANGED << season, matches, onAllMatchesComplete, microtasks, buttons,
                    saved, deviations, lastOp, cbRegistered, cbFired >>

SpecBuchholz == InitBuchholz /\ [][BuchholzStep]_vars

\* ------------------------------------------------------------------------
\* sortTeamsBySwiss on its own: collections of 0..MaxSort teams with every
\* combination of 0 or 1 wins, differential 0 or 1 and an opponent list
\* that is empty or names the next team of the collection, passed as an
\* array in any order.
\* ------------------------------------------------------------------------
SortCollections(n) ==
    { [t \in 1..n |->
         [swiss |-> [w |-> x[t].w, pd |-> x[t].pd,
                     opps |-> IF x[t].met THEN << (t % n) + 1 >> ELSE << >>]]] :
      x \in [1..n -> [w : 0..1, pd : 0..1, met : BOOLEAN]] }

Arrays(n) ==
    { s \in [1..n -> 1..n] : \A i, j \in 1..n : s[i] = s[j] => i = j }

InitSort ==
    /\ MachineInit
    /\ \E n \in 0..MaxSort :
         \E tm \in SortCollections(n), list \in Arrays(n) :
            probe = [kind |-> "sort", tm |-> tm, given |-> list,
                     list |-> list, out |-> << >>, ran |-> FALSE]

\* sorted = sortTeamsBySwiss(teams): the argument array is only read.
SortStep ==
    /\ probe.kind = "sort"
    /\ ~probe.ran
    /\ probe' = [probe EXCEPT !.out = sortTeamList(probe.tm, probe.list),
                              !.ran = TRUE]
    /\ UNCHANGED << season, matches, onAllMatchesComplete, microtasks, buttons,
                    saved, deviations, lastOp, cbRegistered, cbFired >>

SpecSort == InitSort /\ [][SortStep]_vars

\* ------------------------------------------------------------------------
\* js/sorting.js: comparePlayersByLeague on its own.  Players are
\* identified by name; names are ordered by localeCompare as their
\* indices, so two different players never compare as equal names.
\* ------------------------------------------------------------------------
localeCompare(a, b) == IF a < b THEN 0 - 1 ELSE IF a = b THEN 0 ELSE 1

\* The comparator without the name tie-break.
comparePlayersNoName(pl, a, b) ==
    IF pl[b].league.pts # pl[a].league.pts
    THEN pl[b].league.pts - pl[a].league.pts
    ELSE IF pl[b].league.w # pl[a].league.w
    THEN pl[b].league.w - pl[a].league.w
    ELSE pl[b].league.pd - pl[a].league.pd

\* comparePlayersByLeague(a, b) for the players named a and b of pl.
comparePlayersByLeague(pl, a, b) ==
    IF pl[b].league.pts # pl[a].league.pts
    THEN pl[b].league.pts - pl[a].league.pts
    ELSE IF pl[b].league.w # pl[a].league.w
    THEN pl[b].league.w - pl[a].league.w
    ELSE IF pl[b].league.pd # pl[a].league.pd
    THEN pl[b].league.pd - pl[a].league.pd
    ELSE localeCompare(a, b)

LeagueRecords == [pts : 0..MaxLeagueValue, w : 0..1, l : {0}, pd : {0 - 1, 0}]

InitLeague ==
    /\ MachineInit
    /\ \E pl \in [1..MaxLeague -> LeagueRecords] :
          probe = [kind |-> "league",
                   pl |-> [p \in 1..MaxLeague |-> [league |-> pl[p]]],
                   out |-> << >>, ran |-> FALSE]

\* Every pair of players of the collection is compared.
LeagueStep ==
    /\ probe.kind = "league"
    /\ ~probe.ran
    /\ probe' = [probe EXCEPT
                   !.out = [a \in 1..MaxLeague |-> [b \in 1..MaxLeague |->
                              comparePlayersByLeague(probe.pl, a, b)]],
                   !.ran = TRUE]
    /\ UNCHANGED << season, matches, onAllMatchesComplete, microtasks, buttons,
                    saved, deviations, lastOp, cbRegistered, cbFired >>

SpecLeague == InitLeague /\ [][LeagueStep]_vars


\* ========================================================================
\* Properties
\* ========================================================================
Rec(tm, t) == <<tm[t].swiss.w, tm[t].swiss.l>>

\* The match elements appended by the step.
NewMatches == SubSeq(matches', Len(matches) + 1, Len(matches'))

SubmitOps == {"submit", "admin", "submitBo3"}

\* Swiss matches between t and u that have a result.
DoneBetween(t, u) ==
    Cardinality({ i \in 1..Len(matches) :
                    /\ matches[i].isSwiss /\ matches[i].done
                    /\ {matches[i].a, matches[i].b} = {t, u} })

\* C1: as long as the week is not finalized, a Swiss match that has had one
\* or more successful submissions (normal or admin, in any order) has added
\* exactly one entry naming the other team to each of its two teams' opps
\* lists: each team lists the other once per match played between them.
C1_OppsExactlyOnce ==
    ~buttons.nextWeek =>
        \A i \in 1..Len(matches) :
            (matches[i].isSwiss /\ matches[i].done) =>
                /\ Count(matches[i].b, teams[matches[i].a].swiss.opps)
                      = DoneBetween(matches[i].a, matches[i].b)
                /\ Count(matches[i].a, teams[matches[i].b].swiss.opps)
                      = DoneBetween(matches[i].a, matches[i].b)

\* C2: applying r1 and then r2 with r1 as previous result leaves both teams'
\* blocks (of the chosen phase, and of the other phase) as applying r2 alone
\* to the starting blocks does.
C2_ReplaceIsExact ==
    (probe.kind = "apply" /\ probe.step = 2) =>
        probe.tm = ApplyToTeams(probe.start, 1, 2, probe.isSwiss,
                                probe.r2[1], probe.r2[2], << >>)

C2_Witness ==
    /\ probe.kind = "apply" /\ probe.step = 2
    /\ probe.r1 = <<11, 3>> /\ probe.r2 = <<9, 11>>
    /\ probe.start[1].swiss.w = 1
    /\ probe.tm # probe.start

\* A rematch-free perfect matching of the teams of pool exists.
PerfectMatchingExists(pool, opps) ==
    LET S == { pool[i] : i \in 1..Len(pool) }
        ok == { e \in SUBSET S :
                  /\ Cardinality(e) = 2
                  /\ \A x \in e : \A y \in e \ {x} : ~InSeq(y, opps[x]) }
    IN \E M \in SUBSET ok :
          /\ UNION M = S
          /\ \A e \in M : \A f \in M : e = f \/ e \cap f = {}

\* C3: for a pool with a rematch-free perfect matching, no returned pair
\* has a team listed in the other's opps, and no team is in two pairs (or
\* paired with itself).
C3_NoRematchNoReuse ==
    (probe.kind = "pair" /\ probe.ran
       /\ PerfectMatchingExists(probe.pool, probe.opps)) =>
        /\ \A i \in 1..Len(probe.out) :
              /\ ~InSeq(probe.out[i][2], probe.opps[probe.out[i][1]])
              /\ ~InSeq(probe.out[i][1], probe.opps[probe.out[i][2]])
              /\ probe.out[i][1] # probe.out[i][2]
        /\ \A i \in 1..Len(probe.out) : \A j \in 1..Len(probe.out) :
              i # j => {probe.out[i][1], probe.out[i][2]}
                         \cap {probe.out[j][1], probe.out[j][2]} = {}

\* A pool of four with a played pair inside it, paired in full.
C3_Witness ==
    /\ probe.kind = "pair" /\ probe.ran
    /\ Len(probe.pool) = 4
    /\ InSeq(probe.pool[2], probe.opps[probe.pool[1]])
    /\ Len(probe.out) = 2

\* C4: for an even pool with a rematch-free perfect matching, the result is
\* a perfect matching: Len(pool) / 2 pairs of pool members that cover it.
C4_FindsPerfectMatching ==
    (probe.kind = "pair" /\ probe.ran /\ Len(probe.pool) % 2 = 0
       /\ PerfectMatchingExists(probe.pool, probe.opps)) =>
        /\ Len(probe.out) * 2 = Len(probe.pool)
        /\ UNION { {probe.out[i][1], probe.out[i][2]} : i \in 1..Len(probe.out) }
              = { probe.pool[i] : i \in 1..Len(probe.pool) }

\* The first choice for the first team leaves a played pair: the search
\* has to take it back.
C4_Witness ==
    /\ probe.kind = "pair" /\ probe.ran
    /\ probe.pool = <<1, 2, 3, 4>>
    /\ ~InSeq(2, probe.opps[1])
    /\ InSeq(4, probe.opps[3])
    /\ probe.out = << <<1, 3>>, <<2, 4>> >>

\* C5: when round 4 is entered with exactly four eligible teams, two at
\* (2,1) and two at (1,2), the round consists of exactly two single games,
\* the two eligible (2,1) teams against each other and the two eligible
\* (1,2) teams against each other, and pending is 2.
C5_Round4TwoMatches ==
    [][ (/\ lastOp' = "nextSwissRound" /\ swissRound' = 4
         /\ Len(R4Teams(teams)) = 4
         /\ Len(R4Group(teams, 2, 1)) = 2
         /\ Len(R4Group(teams, 1, 2)) = 2)
        => /\ pending' = 2
           /\ Len(NewMatches) = 2
           /\ \A k \in 1..Len(NewMatches) :
                 /\ NewMatches[k].isSwiss /\ ~NewMatches[k].bo3
                 /\ teams[NewMatches[k].a].swiss.playR4
                 /\ teams[NewMatches[k].b].swiss.playR4
           /\ \E k \in 1..Len(NewMatches) :
                 {NewMatches[k].a, NewMatches[k].b}
                    = { t \in Teams : teams[t].swiss.playR4 /\ Rec(teams, t) = <<2, 1>> }
           /\ \E k \in 1..Len(NewMatches) :
                 {NewMatches[k].a, NewMatches[k].b}
                    = { t \in Teams : teams[t].swiss.playR4 /\ Rec(teams, t) = <<1, 2>> }
      ]_vars

\* C6: on entering round 3 every new match pairs two teams of one of the
\* pools (2,0), (1,1), (0,2); it is best-of-3 for (2,0) and (0,2) and a
\* single game for (1,1); and the teams marked for round 4 afterwards are
\* exactly the teams at (1,1).
C6_Round3Formats ==
    [][ (lastOp' = "nextSwissRound" /\ swissRound' = 3)
        => /\ \A k \in 1..Len(NewMatches) :
                 /\ NewMatches[k].isSwiss
                 /\ Rec(teams, NewMatches[k].a) = Rec(teams, NewMatches[k].b)
                 /\ Rec(teams, NewMatches[k].a) \in {<<2, 0>>, <<1, 1>>, <<0, 2>>}
                 /\ NewMatches[k].bo3 <=> Rec(teams, NewMatches[k].a) # <<1, 1>>
           /\ { t \in Teams : teams'[t].swiss.playR4 }
                 = { t \in Teams : Rec(teams, t) = <<1, 1>> }
      ]_vars

C6_Witness ==
    /\ lastOp = "nextSwissRound" /\ swissRound = 3
    /\ Cardinality({ i \in 1..Len(matches) : matches[i].rnd = 3 /\ matches[i].bo3 }) = 2
    /\ Cardinality({ i \in 1..Len(matches) : matches[i].rnd = 3 /\ ~matches[i].bo3 }) = 2
    /\ Cardinality({ t \in Teams : teams[t].swiss.playR4 }) = 4

\* C7: with all eight teams at (0,0) and no opponents, entering round 1
\* creates exactly four single Swiss games whose pairs are disjoint and
\* cover all teams, and sets pending to 4.
C7_Round1Pairs ==
    [][ (/\ lastOp' = "nextSwissRound" /\ swissRound' = 1
         /\ \A t \in Teams : Rec(teams, t) = <<0, 0>> /\ teams[t].swiss.opps = << >>)
        => /\ pending' = 4
           /\ Len(NewMatches) = 4
           /\ \A k \in 1..4 : NewMatches[k].isSwiss /\ ~NewMatches[k].bo3
                               /\ ~NewMatches[k].done
           /\ UNION { {NewMatches[k].a, NewMatches[k].b} : k \in 1..4 } = Teams
      ]_vars

C7_Witness ==
    /\ lastOp = "nextSwissRound" /\ swissRound = 1
    /\ \A t \in Teams : Rec(teams, t) = <<0, 0>> /\ teams[t].swiss.opps = << >>
    /\ pending = 4

\* C8: a nextSwissRound call made while pending > 0 changes neither
\* swissRound, pending, any team, the matches, nor anything else of the
\* season state, the buttons or the registered callback.
C8_BlockedAdvanceChangesNothing ==
    [][ (lastOp' \in {"nextSwissRound", "nextSwissBlocked"} /\ pending > 0)
        => UNCHANGED << season, matches, onAllMatchesComplete, microtasks,
                        buttons, saved >>
      ]_vars

C8_Witness == lastOp = "nextSwissBlocked" /\ pending > 0

\* C9: swissRound is always in 0..SWISS_ROUNDS; nextSwissRound, when it
\* advances, adds exactly 1; only nextWeek otherwise changes it (to 0).
C9_SwissRoundRange ==
    /\ [](swissRound \in 0..SWISS_ROUNDS)
    /\ [][ /\ lastOp' = "nextSwissRound" => swissRound' = swissRound + 1
           /\ lastOp' = "nextWeek" => swissRound' = 0
           /\ lastOp' \notin {"nextSwissRound", "nextWeek"} => swissRound' = swissRound
         ]_vars

\* Round 4 is complete: the state in which one more advance would leave
\* the range.
C9_Witness ==
    /\ swissRound = SWISS_ROUNDS /\ pending = 0 /\ lastOp = "submit"
    /\ buttons.startBracket

\* C10: a registered completion callback runs exactly once.  At any time
\* at most one callback is registered or scheduled, and every other one
\* registered so far has run once.  A callback is scheduled exactly by the
\* first result of a bracket match that takes pending from 1 to 0; it has
\* been cleared from the singleton by then, and when it runs (a step of its
\* own) the submission's state update has been saved.
C10_CallbackOnce ==
    /\ [](/\ cbRegistered - cbFired
               = (IF onAllMatchesComplete # 0 \/ microtasks # << >> THEN 1 ELSE 0)
          /\ microtasks # << >> =>
               /\ Len(microtasks) = 1
               /\ onAllMatchesComplete = 0
               /\ pending = 0
               /\ lastOp \in {"submit", "admin"}
               /\ saved = Snapshot(week, swissRound, pending, teams, players,
                                   bracketRounds))
    /\ [][ /\ (microtasks = << >> /\ microtasks' # << >>)
              <=> (/\ lastOp' \in SubmitOps
                   /\ onAllMatchesComplete # 0
                   /\ pending = 1 /\ pending' = 0
                   /\ \E i \in 1..Len(matches) :
                         /\ ~matches[i].isSwiss
                         /\ ~matches[i].done /\ matches'[i].done)
           /\ cbFired' # cbFired
              => /\ lastOp' = "callback"
                 /\ cbFired' = cbFired + 1
                 /\ microtasks # << >> /\ microtasks' = << >>
         ]_vars

\* The callback of bracket round 1 has run and has registered round 2's.
C10_Witness ==
    /\ lastOp = "callback" /\ cbFired >= 1
    /\ onAllMatchesComplete = 2 /\ pending = 4

\* Some match element still takes a result through its submit button.
OpenMatch == \E i \in 1..Len(matches) : ~matches[i].disabled

\* C11: in a week played without corrections no state before finalization
\* is stuck: a match is open, or the completion callback is scheduled, or
\* the next-round button is enabled with no match pending, or the
\* start-bracket button is enabled.
C11_WeekNeverStuck ==
    (probe.kind = "week" /\ ~buttons.nextWeek) =>
        \/ OpenMatch
        \/ microtasks # << >>
        \/ buttons.nextSwiss /\ pending <= 0
        \/ buttons.startBracket

\* The seeds read back from a first bracket round laid out as
\* (1v8), (4v5), (2v7), (3v6).
SeedsOf(r1) ==
    << r1[1][1], r1[3][1], r1[4][1], r1[2][1],
       r1[2][2], r1[4][2], r1[3][2], r1[1][2] >>

\* C12: right after startBracket, rounds 2 and 3 are empty and round 1 is
\* (seed1, seed8), (seed4, seed5), (seed2, seed7), (seed3, seed6), where the
\* seeds are all eight teams, each ranked before the next by the Swiss
\* comparator, and one match element per pair has been created in order.
C12_BracketSeeding ==
    lastOp = "startBracket" =>
        /\ Len(bracketRounds) = 3
        /\ bracketRounds[2] = << >> /\ bracketRounds[3] = << >>
        /\ Len(bracketRounds[1]) = 4
        /\ LET seed == SeedsOf(bracketRounds[1])
           IN /\ { seed[k] : k \in 1..8 } = Teams
              /\ \A k \in 1..7 : compareTeamsBySwiss(teams, seed[k], seed[k + 1])
        /\ pending = 4
        /\ \A k \in 1..4 :
              LET m == matches[Len(matches) - 4 + k]
              IN <<m.a, m.b>> = bracketRounds[1][k] /\ ~m.isSwiss /\ ~m.done

\* The bracket has started from standings that are not in name order and
\* in which wins alone do not decide every rank.
C12_Witness ==
    /\ lastOp = "startBracket"
    /\ bracketRounds[1][1][1] # 1
    /\ \E t \in Teams : \E u \in Teams :
          /\ t < u /\ teams[t].swiss.w = teams[u].swiss.w
          /\ compareTeamsBySwiss(teams, u, t)

\* The team that won, and the team that lost, the single game of match
\* element m, by the result entered last.
MatchWinner(m) == IF m.lastResult[1] > m.lastResult[2] THEN m.a ELSE m.b
MatchLoser(m) == IF m.lastResult[1] > m.lastResult[2] THEN m.b ELSE m.a

\* The match elements of the bracket round generated before the newest one
\* (each round has four), in pair order.
PrevRound == SubSeq(matches, Len(matches) - 7, Len(matches) - 4)

\* The bracket round just completed is round n, and the callback has just
\* generated round n + 1 from its four match elements.
Generated(n) ==
    /\ lastOp = "callback"
    /\ onAllMatchesComplete = n + 1
    /\ Len(matches) >= 8
    /\ \A k \in 1..4 : /\ ~PrevRound[k].isSwiss /\ PrevRound[k].rnd = n
                        /\ PrevRound[k].done
                        /\ <<PrevRound[k].a, PrevRound[k].b>> = bracketRounds[n][k]

\* C13: when the callback has generated bracket round 2 from the round-1
\* matches P1..P4, round 2 is winner(P1) v winner(P2), winner(P3) v
\* winner(P4), loser(P1) v loser(P2), loser(P3) v loser(P4), in that order.
C13_Round2Pairs ==
    Generated(1) =>
        bracketRounds[2] =
            << <<MatchWinner(PrevRound[1]), MatchWinner(PrevRound[2])>>,
               <<MatchWinner(PrevRound[3]), MatchWinner(PrevRound[4])>>,
               <<MatchLoser(PrevRound[1]), MatchLoser(PrevRound[2])>>,
               <<MatchLoser(PrevRound[3]), MatchLoser(PrevRound[4])>> >>

\* C14: when the callback has generated bracket round 3 from the round-2
\* matches Q1..Q4, round 3 is winner(Q1) v winner(Q2) (places 1-2),
\* loser(Q1) v loser(Q2) (3-4), winner(Q3) v winner(Q4) (5-6), loser(Q3) v
\* loser(Q4) (7-8), in that index order.
C14_Round3Pairs ==
    Generated(2) =>
        bracketRounds[3] =
            << <<MatchWinner(PrevRound[1]), MatchWinner(PrevRound[2])>>,
               <<MatchLoser(PrevRound[1]), MatchLoser(PrevRound[2])>>,
               <<MatchWinner(PrevRound[3]), MatchWinner(PrevRound[4])>>,
               <<MatchLoser(PrevRound[3]), MatchLoser(PrevRound[4])>> >>

\* The round-3 match elements (the newest four), in pair order.
LastRound == SubSeq(matches, Len(matches) - 3, Len(matches))

\* League points of placement index i (1..4) for the winner and the loser
\* of its match: 15/8, 8/6, 6/4, 4/2 with the default table.
WinnerPoints(i) == BRACKET_BASE_POINTS[i] + (IF i = 1 THEN FIRST_PLACE_BONUS ELSE 0)
LoserPoints(i) == BRACKET_BASE_POINTS[i] - LOSER_POINT_PENALTY

\* The points player p is due: those of the placement match its team played.
PointsDue(p) ==
    LET i == CHOOSE k \in 1..4 :
                 p \in TeamPlayers(LastRound[k].a) \cup TeamPlayers(LastRound[k].b)
    IN IF p \in TeamPlayers(MatchWinner(LastRound[i]))
       THEN WinnerPoints(i) ELSE LoserPoints(i)

TeamOf(p) == CHOOSE t \in Teams : p \in TeamPlayers(t)

\* The step is the week finalization run by the round-3 callback over the
\* four round-3 match elements.
Finalizes ==
    /\ lastOp' = "callback"
    /\ microtasks # << >> /\ Head(microtasks) = BRACKET_ROUND_COUNT
    /\ Len(matches) >= 4
    /\ \A k \in 1..4 : /\ ~LastRound[k].isSwiss /\ LastRound[k].rnd = 3
                        /\ LastRound[k].done
                        /\ <<LastRound[k].a, LastRound[k].b>> = bracketRounds[3][k]

\* C15: at week finalization every player of the winner of the round-3
\* match at index i gains BRACKET_BASE_POINTS[i] (+ FIRST_PLACE_BONUS at
\* the first index), every player of its loser gains BRACKET_BASE_POINTS[i]
\* - LOSER_POINT_PENALTY, and each player's league wins, losses and point
\* differential grow by the bracket wins, losses and differential of the
\* player's team.
C15_AwardByPlacement ==
    [][ Finalizes =>
          \A p \in Players :
              /\ players'[p].pts = players[p].pts + PointsDue(p)
              /\ players'[p].w = players[p].w + teams[TeamOf(p)].bracket.w
              /\ players'[p].l = players[p].l + teams[TeamOf(p)].bracket.l
              /\ players'[p].pd = players[p].pd + teams[TeamOf(p)].bracket.pd
      ]_vars

\* The step is finalizeWeek run by the round-3 callback.
FinalizeStep ==
    /\ lastOp' = "callback"
    /\ microtasks # << >> /\ Head(microtasks) = BRACKET_ROUND_COUNT
    /\ bracketRounds # << >>

\* The index of the round-3 pair team t is in.
PlacementOf(t) ==
    CHOOSE k \in 1..4 : t \in {bracketRounds[3][k][1], bracketRounds[3][k][2]}

\* C16: finalization leaves every team with swiss wins, losses and
\* differential 0, no opponents and no round-4 flag, and with an all-zero
\* bracket block.  A player's league record changes by the award only: the
\* points are the winner's or the loser's share of the team's placement
\* match (one team of the pair gets each), and wins, losses and
\* differential grow by the team's bracket record.  Week, round, pending
\* and the bracket rounds are untouched.
C16_FinalizeFrame ==
    [][ FinalizeStep =>
          /\ \A t \in Teams :
                /\ teams'[t].swiss = [w |-> 0, l |-> 0, pd |-> 0, opps |-> << >>,
                                      playR4 |-> FALSE]
                /\ teams'[t].bracket = [w |-> 0, l |-> 0, pd |-> 0]
          /\ \A p \in Players :
                LET t == TeamOf(p)
                    i == PlacementOf(t)
                IN /\ players'[p].pts - players[p].pts
                         \in {WinnerPoints(i), LoserPoints(i)}
                   /\ players'[p].w = players[p].w + teams[t].bracket.w
                   /\ players'[p].l = players[p].l + teams[t].bracket.l
                   /\ players'[p].pd = players[p].pd + teams[t].bracket.pd
          /\ \A k \in 1..4 : \A p \in TeamPlayers(bracketRounds[3][k][1]) :
                \A q \in TeamPlayers(bracketRounds[3][k][2]) :
                   (players'[p].pts - players[p].pts)
                      + (players'[q].pts - players[q].pts)
                      = WinnerPoints(k) + LoserPoints(k)
          /\ UNCHANGED << week, swissRound, pending, bracketRounds >>
      ]_vars

\* A week has been finalized after a Swiss round 3 that marked teams for
\* round 4 and a bracket in which every team has a record.
C16_Witness ==
    /\ lastOp = "callback" /\ buttons.nextWeek /\ onAllMatchesComplete = 0
    /\ \A t \in Teams : teams[t].swiss.opps = << >> /\ teams[t].bracket.w = 0
    /\ \E p \in Players : players[p].pts = 15 /\ players[p].w = 3
    /\ \E p \in Players : players[p].pts = 2 /\ players[p].l = 3

\* C17: the step that begins a new week raises the week counter by exactly
\* 1 and leaves swissRound 0, pending 0 and no bracket rounds.
C17_NewWeekState ==
    [][ lastOp' = "nextWeek" =>
          /\ week' = week + 1
          /\ swissRound' = 0
          /\ pending' = 0
          /\ bracketRounds' = << >>
      ]_vars

\* The Swiss matches shown in which team t has a result.
SwissPlayed(t) ==
    Cardinality({ i \in 1..Len(matches) :
                    /\ matches[i].isSwiss /\ matches[i].done
                    /\ t \in {matches[i].a, matches[i].b} })

\* C18: until the week is finalized, every team's swiss wins + losses is
\* the number of this week's Swiss matches in which it has a result, that
\* number is between 0 and SWISS_ROUNDS, and swiss.opps has that length.
C18_SwissRecordCounts ==
    ~buttons.nextWeek =>
        \A t \in Teams :
            /\ teams[t].swiss.w + teams[t].swiss.l = SwissPlayed(t)
            /\ SwissPlayed(t) \in 0..SWISS_ROUNDS
            /\ Len(teams[t].swiss.opps) = SwissPlayed(t)

\* The match elements that get their first result in the step.
NewlyDone == { i \in 1..Len(matches) : ~matches[i].done /\ matches'[i].done }

\* C19: a successful submission or correction lowers pending by 1 when it
\* is the first result of its match element and leaves pending unchanged
\* when the element already had a result; no other match element changes.
C19_PendingOncePerMatch ==
    [][ lastOp' \in SubmitOps =>
          /\ Cardinality(NewlyDone) <= 1
          /\ pending' = pending - Cardinality(NewlyDone)
          /\ \A i \in 1..Len(matches) : matches[i].done => matches'[i].done
          /\ Len(matches') = Len(matches)
      ]_vars

\* The first match of round 1 was submitted and then corrected through the
\* admin control: pending is still 3.
C19_Witness ==
    /\ lastOp = "admin" /\ swissRound = 1 /\ pending = 3
    /\ matches[1].done /\ matches[1].oppsRecorded
    /\ matches[1].lastResult = UpsetScore
    /\ \A i \in 2..4 : ~matches[i].done

RECURSIVE OppTerms(_, _, _)
OppTerms(coll, opps, i) ==
    IF i > Len(opps) THEN 0
    ELSE (IF opps[i] \in DOMAIN coll THEN coll[opps[i]] ELSE 0)
           + OppTerms(coll, opps, i + 1)

\* C21: buchholz returns the sum, one term per entry of swiss.opps, of the
\* wins of the named team of the collection, with 0 for a name that no team
\* has; it returns 0 for an empty list and for a null team, a team without a
\* swiss block and a team whose opps is not a list.
C21_BuchholzSum ==
    (probe.kind = "buchholz" /\ probe.ran) =>
        probe.out = IF probe.team.shape = "team"
                    THEN OppTerms(probe.coll, probe.team.opps, 1)
                    ELSE 0

\* A team that met team 1 (2 wins) twice and names a team that is not in
\* the collection: Buchholz 4.
C21_Witness ==
    /\ probe.kind = "buchholz" /\ probe.ran
    /\ probe.team.shape = "team"
    /\ probe.team.opps = <<1, 3, 1>>
    /\ DOMAIN probe.coll = {1, 2} /\ probe.coll[1] = 2
    /\ probe.out = 4

\* The ranking key of team t of the collection tm, with the Buchholz score
\* computed entry by entry from the opponent list.
SwissKey(tm, t) ==
    [w |-> tm[t].swiss.w,
     bh |-> OppTerms([u \in DOMAIN tm |-> tm[u].swiss.w], tm[t].swiss.opps, 1),
     pd |-> tm[t].swiss.pd]

\* a is ranked before b: more wins, then higher Buchholz, then higher
\* differential, then the earlier name.
RankedBefore(tm, a, b) ==
    LET ka == SwissKey(tm, a)
        kb == SwissKey(tm, b)
    IN \/ ka.w > kb.w
       \/ ka.w = kb.w /\ ka.bh > kb.bh
       \/ ka.w = kb.w /\ ka.bh = kb.bh /\ ka.pd > kb.pd
       \/ ka.w = kb.w /\ ka.bh = kb.bh /\ ka.pd = kb.pd /\ a < b

\* C22: the result of sortTeamsBySwiss holds every team of the argument
\* exactly once, each team ranked before the next by wins, Buchholz,
\* differential (all descending) and name (ascending), and the argument
\* array is as it was.
C22_SortBySwiss ==
    (probe.kind = "sort" /\ probe.ran) =>
        /\ Len(probe.out) = Len(probe.given)
        /\ \A i \in 1..Len(probe.given) : Count(probe.given[i], probe.out) = 1
        /\ \A k \in 1..(Len(probe.out) - 1) :
              RankedBefore(probe.tm, probe.out[k], probe.out[k + 1])
        /\ probe.list = probe.given

\* Three teams with equal wins and differential, given in reverse name
\* order, where only team 2 has met a team with a win: the Buchholz score
\* puts team 2 first and the names order the other two.
C22_Witness ==
    /\ probe.kind = "sort" /\ probe.ran
    /\ probe.given = <<3, 2, 1>>
    /\ \A t \in 1..3 : probe.tm[t].swiss.w = 1 /\ probe.tm[t].swiss.pd = 0
    /\ probe.tm[1].swiss.opps = << >>
    /\ probe.tm[2].swiss.opps = << 3 >>
    /\ probe.tm[3].swiss.opps = << >>
    /\ probe.out = <<2, 1, 3>>

\* Player a stands before player b in the league table: more points, then
\* more wins, then the higher differential, then the earlier name.
LeagueBefore(pl, a, b) ==
    LET x == pl[a].league
        y == pl[b].league
    IN \/ x.pts > y.pts
       \/ x.pts = y.pts /\ x.w > y.w
       \/ x.pts = y.pts /\ x.w = y.w /\ x.pd > y.pd
       \/ x.pts = y.pts /\ x.w = y.w /\ x.pd = y.pd /\ a < b

\* C23: on players with distinct names comparePlayersByLeague is negative
\* exactly when the first player stands before the second by points, wins,
\* differential (descending) and name (ascending); it is antisymmetric and
\* transitive and is 0 only for a player compared with itself.
C23_LeagueTotalOrder ==
    (probe.kind = "league" /\ probe.ran) =>
        \A a, b \in 1..MaxLeague :
            /\ (probe.out[a][b] < 0) = LeagueBefore(probe.pl, a, b)
            /\ (probe.out[a][b] < 0) = (probe.out[b][a] > 0)
            /\ (probe.out[a][b] = 0) = (a = b)
            /\ \A c \in 1..MaxLeague :
                  (probe.out[a][b] < 0 /\ probe.out[b][c] < 0)
                      => probe.out[a][c] < 0

\* Three players tied on points, wins and differential have been compared:
\* the names decide.
C23_Witness ==
    /\ probe.kind = "league" /\ probe.ran
    /\ \A p \in 1..3 : probe.pl[p].league = [pts |-> 1, w |-> 1, l |-> 0, pd |-> 0]
    /\ probe.out[1][2] < 0 /\ probe.out[2][3] < 0 /\ probe.out[3][1] > 0

\* The handlers that change the season state when they end under these
\* names: a result entry, a Swiss round advance, the bracket start, a
\* completion callback (next bracket round or finalization), next week.
MutatingOps ==
    SubmitOps \cup {"nextSwissRound", "startBracket", "callback", "nextWeek"}

\* C24: when a state-changing operation has ended, the snapshot written by
\* save() is the snapshot of the season state in memory.
C24_SavedAfterMutation ==
    lastOp \in MutatingOps =>
        saved = Snapshot(week, swissRound, pending, teams, players, bracketRounds)

\* C25: the week number stays within 1..15; only nextWeek changes it, by
\* exactly 1 and only below week 15; at week 15 nextWeek leaves the week,
\* the Swiss round, pending, the team and player records and the bracket
\* rounds as they are.
C25_WeekInRange ==
    /\ [](week \in 1..TOTAL_WEEKS)
    /\ [][ /\ week' # week => lastOp' = "nextWeek"
           /\ lastOp' = "nextWeek" => week < TOTAL_WEEKS /\ week' = week + 1
           /\ lastOp' = "nextWeekDone" =>
                 /\ week = TOTAL_WEEKS
                 /\ UNCHANGED season
       ]_vars

\* nextWeek was invoked after the finalization of week 15.
C25_Witness ==
    /\ lastOp = "nextWeekDone"
    /\ week = TOTAL_WEEKS
    /\ buttons.nextWeek
    /\ \A t \in Teams : teams[t].swiss = ZeroSwiss
    /\ \E p \in Players : players[p].pts > 15

\* C26: every step that changes the bracket rounds, or registers a
\* completion callback, outside a completion callback is a run of
\* startBracket from a state with 8 teams, swissRound 4 and pending 0; it
\* seeds round 1 and creates its four matches.
C26_BracketStartGuard ==
    [][ (lastOp' # "callback"
          /\ (bracketRounds' # bracketRounds \/ cbRegistered' # cbRegistered))
        => /\ lastOp' = "startBracket"
           /\ Cardinality(DOMAIN teams) = 8
           /\ swissRound = SWISS_ROUNDS
           /\ pending = 0
           /\ Len(bracketRounds'[1]) = 4
           /\ pending' = 4
           /\ onAllMatchesComplete' = 1
      ]_vars

\* The bracket has just been started after a completed fourth round.
C26_Witness ==
    /\ lastOp = "startBracket"
    /\ swissRound = SWISS_ROUNDS /\ pending = 4
    /\ Len(bracketRounds) = 3 /\ Len(bracketRounds[1]) = 4
    /\ onAllMatchesComplete = 1
    /\ Cardinality({ i \in 1..Len(matches) : ~matches[i].isSwiss }) = 4

InvalidOps == {"submitInvalid", "adminInvalid", "bo3Invalid"}

\* C27: an entry whose scores fail validation leaves pending, every team's
\* record and opponents, every match's done flag and last result, the
\* registered callback and the scheduled callbacks as they were; and a
\* single-game result is stored only if it passes the validation rule.
C27_InvalidChangesNothing ==
    [][ /\ lastOp' \in InvalidOps =>
              UNCHANGED << pending, teams, matches, onAllMatchesComplete,
                           microtasks, cbFired, players, bracketRounds >>
        /\ \A i \in 1..Len(matches) :
              (i <= Len(matches') /\ matches'[i].lastResult # matches[i].lastResult)
                  => LET r == matches'[i].lastResult
                     IN /\ r[1] \in 0..99 /\ r[2] \in 0..99
                        /\ r[1] >= 11 \/ r[2] >= 11
                        /\ r[1] - r[2] >= 2 \/ r[2] - r[1] >= 2
      ]_vars

\* A best-of-3 entry of round 3 with split games and an invalid third game
\* has been refused: no match of the round has a result.
C27_Witness ==
    /\ lastOp = "bo3Invalid"
    /\ swissRound = 3
    /\ pending = Cardinality({ i \in 1..Len(matches) : matches[i].rnd = 3 })
    /\ pending > 0
    /\ \A i \in 1..Len(matches) : matches[i].rnd = 3 => ~matches[i].done

\* C28: when nextSwissRound has processed round 4, no team carries the
\* round-4 eligibility mark.
C28_R4MarkCleared ==
    (lastOp = "nextSwissRound" /\ swissRound = SWISS_ROUNDS) =>
        \A t \in Teams : ~teams[t].swiss.playR4

\* The bracket matches shown that have no result yet.
OpenBracketMatches ==
    { i \in 1..Len(matches) : ~matches[i].isSwiss /\ ~matches[i].done }

TiedPair(n, k) ==
    teams[bracketRounds[n][k][1]].bracket.w = teams[bracketRounds[n][k][2]].bracket.w

\* Where generateNextBracketRound(n) puts the winner and the loser of pair
\* k of round n: <<pair index, position>> in round n + 1.
WinnerSlot(n, k) ==
    IF n = 1 THEN << (k + 1) \div 2, 2 - (k % 2) >>
    ELSE << 2 * ((k + 1) \div 2) - 1, 2 - (k % 2) >>

LoserSlot(n, k) ==
    IF n = 1 THEN << 2 + (k + 1) \div 2, 2 - (k % 2) >>
    ELSE << 2 * ((k + 1) \div 2), 2 - (k % 2) >>

\* C30: a bracket pair whose teams have equal bracket win counts when it
\* is resolved is decided by the order of the pair alone, the same way in
\* generateNextBracketRound and in finalizeWeek: the second team of the
\* pair advances as winner (the first as loser), and at finalization the
\* players of the second team get the winner's points and those of the
\* first team the loser's points.
C30_TieBySecondTeam ==
    [][ (lastOp' = "callback" /\ microtasks # << >> /\ bracketRounds # << >>)
        => LET n == Head(microtasks)
           IN \A k \in 1..Len(bracketRounds[n]) :
                 TiedPair(n, k) =>
                    LET first == bracketRounds[n][k][1]
                        second == bracketRounds[n][k][2]
                    IN IF n < BRACKET_ROUND_COUNT
                       THEN /\ bracketRounds'[n + 1][WinnerSlot(n, k)[1]][WinnerSlot(n, k)[2]]
                                 = second
                            /\ bracketRounds'[n + 1][LoserSlot(n, k)[1]][LoserSlot(n, k)[2]]
                                 = first
                       ELSE /\ \A p \in TeamPlayers(second) :
                                  players'[p].pts = players[p].pts + WinnerPoints(k)
                            /\ \A p \in TeamPlayers(first) :
                                  players'[p].pts = players[p].pts + LoserPoints(k)
      ]_vars

\* Bracket round 3 has just been generated from a round 2 in which a pair
\* was tied on bracket wins; its second team went on as the winner.
C30_Witness ==
    /\ lastOp = "callback"
    /\ onAllMatchesComplete = 3
    /\ \E k \in 1..4 :
          /\ TiedPair(2, k)
          /\ bracketRounds[3][WinnerSlot(2, k)[1]][WinnerSlot(2, k)[2]]
                = bracketRounds[2][k][2]

\* The block (swiss or bracket) of team t that match element m updates.
BlockOf(tm, m, t) == IF m.isSwiss THEN tm[t].swiss ELSE tm[t].bracket

\* C31: a successful best-of-3 entry for match element i with games g gives
\* the team that won two games one win and the other one loss, and adds to
\* each differential the score differences of games 1 and 2, and of game 3
\* exactly when games 1 and 2 were won by different teams.
C31_Bo3Effect ==
    [][ \A i \in 1..Len(matches) : \A g \in Bo3Inputs :
          (SubmitBo3(i, g) /\ lastOp' = "submitBo3") =>
             LET m == matches[i]
                 split == (g[1] > g[2]) # (g[3] > g[4])
                 aWon == IF split THEN g[5] > g[6] ELSE g[1] > g[2]
                 d == (g[1] - g[2]) + (g[3] - g[4])
                        + (IF split THEN g[5] - g[6] ELSE 0)
                 A0 == BlockOf(teams, m, m.a)
                 B0 == BlockOf(teams, m, m.b)
                 A1 == BlockOf(teams', m, m.a)
                 B1 == BlockOf(teams', m, m.b)
             IN /\ A1.w = A0.w + (IF aWon THEN 1 ELSE 0)
                /\ A1.l = A0.l + (IF aWon THEN 0 ELSE 1)
                /\ B1.w = B0.w + (IF aWon THEN 0 ELSE 1)
                /\ B1.l = B0.l + (IF aWon THEN 1 ELSE 0)
                /\ A1.pd = A0.pd + d
                /\ B1.pd = B0.pd - d
      ]_vars

\* The match elements of Swiss round r.
RoundMatches(r) == { i \in 1..Len(matches) : matches[i].isSwiss /\ matches[i].rnd = r }

\* C32: with valid results only, each of Swiss rounds 1, 2 and 3 is created
\* with exactly 4 matches in which every team plays once, each between two
\* teams with the same wins and the same losses.
C32_FullRounds ==
    (probe.kind = "outcomes" /\ lastOp = "nextSwissRound" /\ swissRound \in 1..3) =>
        /\ Cardinality(RoundMatches(swissRound)) = 4
        /\ pending = 4
        /\ \A t \in Teams :
              Cardinality({ i \in RoundMatches(swissRound) :
                              t \in {matches[i].a, matches[i].b} }) = 1
        /\ \A i \in RoundMatches(swissRound) :
              /\ matches[i].a # matches[i].b
              /\ Rec(teams, matches[i].a) = Rec(teams, matches[i].b)

\* Round 3 has been created after all eight matches of rounds 1 and 2 were
\* won by the second-named team.
C32_Witness ==
    /\ probe.kind = "outcomes"
    /\ lastOp = "nextSwissRound" /\ swissRound = 3
    /\ deviations = 8
    /\ Cardinality(RoundMatches(3)) = 4

\* The Swiss match elements of the week: those of rounds 1 to 4.
SwissMatches == { i \in 1..Len(matches) : matches[i].isSwiss }

\* C33: within one week no two teams meet in more than one Swiss match.
C33_NoRematch ==
    \A i, j \in SwissMatches :
        {matches[i].a, matches[i].b} = {matches[j].a, matches[j].b} => i = j

\* The step is the callback of bracket round n, run over the four match
\* elements of that round (the newest four), all of them resolved.
Resolves(n) ==
    /\ lastOp' = "callback"
    /\ microtasks # << >> /\ Head(microtasks) = n
    /\ Len(matches) >= 4 /\ Len(bracketRounds) >= n
    /\ \A k \in 1..4 : /\ ~LastRound[k].isSwiss /\ LastRound[k].rnd = n
                        /\ LastRound[k].done
                        /\ <<LastRound[k].a, LastRound[k].b>> = bracketRounds[n][k]

\* C34: when a bracket round is resolved, the team the callback treats as
\* the winner of each pair (higher cumulative bracket wins) is the team that
\* won the pair's match in that round, and it has exactly one bracket win
\* more than the other team of the pair.
C34_WinnerByRoundResult ==
    [][ \A n \in 1..BRACKET_ROUND_COUNT :
          Resolves(n) =>
            \A k \in 1..4 :
              /\ PairWinner(teams, bracketRounds[n][k]) = MatchWinner(LastRound[k])
              /\ teams[MatchWinner(LastRound[k])].bracket.w
                   = teams[MatchLoser(LastRound[k])].bracket.w + 1
      ]_vars

\* The week in progress has been finalized: finalizeWeek alone enables the
\* next-week button (bracket.js 152) and only the week change disables it.
WeekFinalized == buttons.nextWeek

\* C35: a week is finalized at most once: no step awards league points to a
\* player while the week in progress has already been finalized.
C35_FinalizedOnce ==
    [][ (\E p \in Players : players'[p].pts # players[p].pts) => ~WeekFinalized ]_vars

\* The match elements on the page that have had no successful submission.
Unsubmitted == { i \in 1..Len(matches) : ~matches[i].done }

\* C36: pending is the number of existing match elements that have not yet
\* had a successful submission; it is never negative, and never positive
\* while no such match exists.
C36_PendingCountsOpenMatches ==
    /\ pending >= 0
    /\ pending = Cardinality(Unsubmitted)

\* The pairs of bracket round n in which team t appears.
PairsOf(n, t) ==
    { k \in 1..Len(bracketRounds[n]) :
        t \in {bracketRounds[n][k][1], bracketRounds[n][k][2]} }

PairedTeams(out) == UNION { {out[i][1], out[i][2]} : i \in 1..Len(out) }

\* C38: swissPair returns either the empty list or Len(pool) / 2 disjoint
\* pairs covering the whole pool, never a part of a pairing; it returns the
\* empty list for a pool of fewer than 2 teams, for a pool of odd size and
\* for a pool without a rematch-free perfect matching.
C38_AllOrNothing ==
    (probe.kind = "pair" /\ probe.ran) =>
        /\ \/ probe.out = << >>
           \/ /\ Len(probe.out) * 2 = Len(probe.pool)
              /\ PairedTeams(probe.out) = { probe.pool[i] : i \in 1..Len(probe.pool) }
        /\ (\/ Len(probe.pool) < 2
            \/ Len(probe.pool) % 2 = 1
            \/ ~PerfectMatchingExists(probe.pool, probe.opps)) => probe.out = << >>

\* A pool of four in which the first two teams have not met but no
\* rematch-free perfect matching exists, answered with the empty list.
C38_Witness ==
    /\ probe.kind = "pair" /\ probe.ran
    /\ Len(probe.pool) = 4
    /\ ~InSeq(probe.pool[2], probe.opps[probe.pool[1]])
    /\ ~PerfectMatchingExists(probe.pool, probe.opps)
    /\ probe.out = << >>

\* The sum of f[t] over the teams.
RECURSIVE SumTeams(_, _)
SumTeams(f, S) ==
    IF S = {} THEN 0
    ELSE LET t == CHOOSE x \in S : TRUE IN f[t] + SumTeams(f, S \ {t})

\* C39: summed over all teams, swiss wins equal swiss losses and swiss
\* differentials sum to 0, and bracket wins equal bracket losses and bracket
\* differentials sum to 0.
C39_ZeroSum ==
    /\ SumTeams([t \in Teams |-> teams[t].swiss.w], Teams)
          = SumTeams([t \in Teams |-> teams[t].swiss.l], Teams)
    /\ SumTeams([t \in Teams |-> teams[t].swiss.pd], Teams) = 0
    /\ SumTeams([t \in Teams |-> teams[t].bracket.w], Teams)
          = SumTeams([t \in Teams |-> teams[t].bracket.l], Teams)
    /\ SumTeams([t \in Teams |-> teams[t].bracket.pd], Teams) = 0

\* A bracket result has just been replaced by an admin correction, in a week
\* whose Swiss phase had best-of-3 matches.
C39_Witness ==
    /\ lastOp = "admin" /\ deviations = 1
    /\ \E i \in 1..Len(matches) : matches[i].bo3 /\ matches[i].done
    /\ \E i \in 1..Len(matches) :
          ~matches[i].isSwiss /\ matches[i].lastResult = <<9, 11>>
    /\ \E t \in Teams : teams[t].bracket.pd = -2

\* C40: no team's swiss or bracket win or loss counter is negative.
C40_CountersNonNegative ==
    \A t \in Teams :
        /\ teams[t].swiss.w >= 0 /\ teams[t].swiss.l >= 0
        /\ teams[t].bracket.w >= 0 /\ teams[t].bracket.l >= 0

====
